---- MODULE Spec2Model ----
(***************************************************************************)
(* Reconciliation of desired state against the ManageEngine APIs:          *)
(*   plugins/modules/endpoint_central_patch_config.py  (patch configs)     *)
(*   plugins/modules/service_desk_plus_request.py      (request tickets)   *)
(*                                                                         *)
(* One invocation of run_module is a sequence of blocking remote calls.    *)
(* Each action below is one remote call together with all the local        *)
(* computation run_module performs on its result before the next call.     *)
(* Text values that the code inspects (startswith, in, split) are          *)
(* sequences of one-character strings; values it only compares for         *)
(* equality with a literal are TLA+ strings.                               *)
(***************************************************************************)
EXTENDS Integers, Sequences, FiniteSets, TLC

VARIABLES
    mod,           \* which module runs: "patch" or "ticket"
    params,        \* module.params of the invocation
    pc,            \* the next remote call of run_module, or "done"
    calls,         \* the remote calls issued so far, in order
    result,        \* what exit_json / fail_json reports
    fetched,       \* the list returned by the last get_api_objects
    checked,       \* the existence matcher has returned
    config_exists, \* run_module's config_exists (patch module)
    request,       \* run_module's request: <<>> is None, <<t>> a ticket
    resource_ids,  \* patch_hosts' resource_ids
    patch_ids,     \* patch_hosts' patch_ids
    data,          \* patch_hosts' data, the installpatch body
    resp,          \* the last remote response
    remote,        \* the collections a recording remote holds (repeated runs)
    runs           \* the results of the earlier runs against that remote

vars == <<mod, params, pc, calls, result, fetched, checked, config_exists,
          request, resource_ids, patch_ids, data, resp, remote, runs>>

---------------------------------------------------------------------------
(* Bounds of the model *)

MaxLen == 3        \* longest text value of the matcher and selector harnesses
MaxItems == 2      \* longest fetched list and longest parameter list

---------------------------------------------------------------------------
(* Python built-ins used by the modules *)

Chars == {"a", "b", " "}

\* every text value of at most n characters
Strs(n) == UNION {[1..k -> Chars] : k \in 0..n}

\* every list of at most n elements of S
Lists(S, n) == UNION {[1..k -> S] : k \in 0..n}

Range(s) == {s[i] : i \in 1..Len(s)}

\* str.startswith
StartsWith(s, p) == Len(p) <= Len(s) /\ SubSeq(s, 1, Len(p)) = p

\* the str operator "in": sub occurs in s as a contiguous run
Contains(s, sub) ==
    \E i \in 0..(Len(s) - Len(sub)) : SubSeq(s, i + 1, i + Len(sub)) = sub

\* set(str.split()): the maximal runs of non-whitespace characters
SplitSet(s) ==
    {SubSeq(s, i, j) : <<i, j>> \in
        {p \in (1..Len(s)) \X (1..Len(s)) :
            /\ p[1] <= p[2]
            /\ \A k \in p[1]..p[2] : s[k] # " "
            /\ (p[1] = 1 \/ s[p[1] - 1] = " ")
            /\ (p[2] = Len(s) \/ s[p[2] + 1] = " ")}}

---------------------------------------------------------------------------
(* Remote responses *)

HttpStatuses == {200, 201, 500}

Absent == "<absent>"     \* a key the decoded body does not have

\* A response to a collection read: the status code, whether the decoded
\* body has the envelope key(s) of the collection, and the list under it.
GetResponses(Objs) ==
    {[status_code |-> s, envelope |-> e, objects |-> <<>>] :
        s \in HttpStatuses, e \in BOOLEAN}
    \cup {[status_code |-> 200, envelope |-> TRUE, objects |-> o] : o \in Objs}

\* A response to installpatch: {status, error_code, ...}
InstallResponses ==
    {[status_code |-> s, status |-> "success", error_code |-> Absent] :
        s \in HttpStatuses}
    \cup {[status_code |-> 200, status |-> st, error_code |-> ec] :
            st \in {"error", "success", Absent},
            ec \in {"3010", "3011", Absent}}

\* a remote call as the transport saw it: what was sent, the status code
\* that came back, and whether the decoded body had the key the caller
\* unwraps (TRUE for a caller that returns the body whole)
Call(method, endpoint, arg, status_code, has_key) ==
    [method |-> method, endpoint |-> endpoint, arg |-> arg,
     status_code |-> status_code, has_key |-> has_key]

IsMutating(c) == c.method \in {"POST", "DELETE"}

\* AnsibleModule.fail_json(msg=..., changed=..., failed=True): the process
\* exits; a call that passes no changed is reported as changed=false
FailJson(msg, changed) == [changed |-> changed, failed |-> TRUE, msg |-> msg]

\* result = dict(changed=False, msg="", failed=False)
InitialResult == [changed |-> FALSE, failed |-> FALSE, msg |-> ""]

\* a single invocation answers from the response sets above; no remote
\* state is kept for it
NoRemote == [configs |-> <<>>, systems |-> <<>>, patches |-> <<>>,
             policies |-> <<>>]

---------------------------------------------------------------------------
(* endpoint_central_patch_config.py *)

EcGetOk_no_envelope_check(r) == r.status_code = 200

\* get_api_objects returns the list iff the status is 200 and the body has
\* ["message_response"][object_name]; otherwise it raises
EcGetOk(r) == r.status_code = 200 /\ r.envelope

\* api_post returns the decoded body iff the status is 200
EcPostOk(r) == r.status_code = 200

get_resource_ids_unfiltered(all_systems, hosts) ==
    [i \in 1..Len(all_systems) |-> all_systems[i].resource_id]

get_resource_ids_for_patching(all_systems, hosts) ==
    LET selected_hosts ==
            SelectSeq(all_systems, LAMBDA x : x.resource_name \in Range(hosts))
    IN  [i \in 1..Len(selected_hosts) |-> selected_hosts[i].resource_id]

TypeMatches_by_substring(patch_description, patch_types) ==
    \E i \in 1..Len(patch_types) : Contains(patch_description, patch_types[i])

\* the any(...) of patch_hosts: some requested type has all its tokens
\* among the tokens of the description
TypeMatches(patch_description, patch_types) ==
    \E i \in 1..Len(patch_types) :
        SplitSet(patch_types[i]) \subseteq SplitSet(patch_description)

selected_patches(all_patches, patch_types) ==
    SelectSeq(all_patches,
              LAMBDA x : TypeMatches(x.patch_description, patch_types)
                         /\ x.missing > 0)

select_patch_ids(all_patches, patch_types) ==
    LET sel == selected_patches(all_patches, patch_types)
    IN  [i \in 1..Len(sel) |-> sel[i].patch_id]

matching_policies_by_prefix(policies, policy_name) ==
    SelectSeq(policies, LAMBDA x : StartsWith(x.template_name, policy_name))

\* the generator handed to next(): the policies named policy_name
matching_policies(policies, policy_name) ==
    SelectSeq(policies, LAMBDA x : x.template_name = policy_name)

build_data_ids_swapped(ids, rids, config_name, config_desc, policy_id) ==
    [PatchIDs |-> rids,
     ResourceIDs |-> ids,
     ConfigName |-> config_name,
     ConfigDescription |-> config_desc,
     actionToPerform |-> "Deploy",
     DeploymentPolicyTemplateID |-> policy_id]

build_data(ids, rids, config_name, config_desc, policy_id) ==
    [PatchIDs |-> ids,
     ResourceIDs |-> rids,
     ConfigName |-> config_name,
     ConfigDescription |-> config_desc,
     actionToPerform |-> "Deploy",
     DeploymentPolicyTemplateID |-> policy_id]

ExecutedLabel == "dc.db.config.status.executed"

config_matches_ignoring_deleted(config, config_name, hosts) ==
    /\ StartsWith(config.collection_name, config_name)
    /\ config.total_target_count = Len(hosts)
    /\ config.status_label # ExecutedLabel

config_matches(config, config_name, hosts) ==
    /\ StartsWith(config.collection_name, config_name)
    /\ ~config.is_collection_deleted
    /\ config.total_target_count = Len(hosts)
    /\ config.status_label # ExecutedLabel

check_if_config_exists(config_name, configs, hosts) ==
    \E i \in 1..Len(configs) : config_matches(configs[i], config_name, hosts)

\* lines 324-326: the result of the present branch when the config exists
ec_noop_changed_bug == [changed |-> TRUE, failed |-> FALSE,
                        msg |-> "config already exists"]

ec_noop == [changed |-> FALSE, failed |-> FALSE, msg |-> "config already exists"]

classify_install_3010_fails(r) ==
    IF r.status = Absent
    THEN FailJson("failed to patch hosts", FALSE)
    ELSE IF r.status = "error"
    THEN IF r.error_code = Absent
         THEN FailJson("failed to patch hosts", FALSE)
         ELSE FailJson("resp", FALSE)
    ELSE [changed |-> TRUE, failed |-> FALSE, msg |-> "resp"]

\* run_module's classification of the installpatch response: the result it
\* leaves, and whether it leaves through fail_json
classify_install(r) ==
    IF r.status = Absent
    THEN FailJson("failed to patch hosts", FALSE)           \* KeyError
    ELSE IF r.status = "error"
    THEN IF r.error_code = Absent
         THEN FailJson("failed to patch hosts", FALSE)      \* KeyError
         ELSE IF r.error_code = "3010"
         THEN [changed |-> FALSE, failed |-> FALSE, msg |-> "resp"]
         ELSE FailJson("resp", FALSE)
    ELSE [changed |-> TRUE, failed |-> FALSE, msg |-> "resp"]

---------------------------------------------------------------------------
(* Inputs of the reconciler: module parameters and remote collections *)

DesiredNames == {<<"a">>, <<"a", "b">>}
RemoteNames == {<<"a", "b">>, <<"b">>}
Hostnames == {<<"a">>, <<"b">>}
HostLists == {<<>>, << <<"a">> >>, << <<"a">>, <<"b">> >>}
TypeLabels == {<<"a">>, <<"a", " ", "b">>}
PolicyNames == {<<"a">>, <<"a", "b">>}

\* lists whose elements carry the id the remote gave them, here the position
Numbered(Lst, Make(_, _)) ==
    {[i \in 1..Len(l) |-> Make(l[i], i)] : l \in Lst}

PatchParams ==
    [state : {"present"},
     name : DesiredNames,
     desc : {<<"d">>},
     deployment_policy_name : {<<"a">>},
     hosts : HostLists,
     patch_types : Lists(TypeLabels, 1)]

Configs ==
    [collection_name : RemoteNames,
     is_collection_deleted : BOOLEAN,
     total_target_count : 1..2,
     status_label : {ExecutedLabel, "dc.db.config.status.ready"}]

Systems ==
    Numbered(Lists(Hostnames, MaxItems),
             LAMBDA n, i : [resource_name |-> n, resource_id |-> i])

Patches ==
    Numbered(Lists({<<"a">>, <<"b", " ", "a">>} \X {0, 1}, MaxItems),
             LAMBDA d, i : [patch_description |-> d[1], missing |-> d[2],
                            patch_id |-> i])

Policies ==
    Numbered(Lists(PolicyNames, MaxItems),
             LAMBDA n, i : [template_name |-> n, template_id |-> i])

---------------------------------------------------------------------------
(* endpoint_central_patch_config.py: run_module and patch_hosts *)

\* leave run_module through module.fail_json
Fail(r) == result' = r /\ pc' = "done"

\* configs = get_api_objects("viewconfig"); check_if_config_exists; the
\* present branch up to the first call of patch_hosts
EcViewConfigGiven(r) ==
    /\ mod = "patch" /\ pc = "viewconfig"
    /\ resp' = r
    /\ calls' = Append(calls, Call("GET", "viewconfig", <<>>,
                              r.status_code, r.envelope))
    /\ IF ~EcGetOk(r)
       THEN /\ Fail(FailJson("failed to patch hosts", FALSE))
            /\ UNCHANGED <<fetched, checked, config_exists>>
       ELSE /\ fetched' = r.objects
            /\ checked' = TRUE
            /\ config_exists' =
                   check_if_config_exists(params.name, r.objects, params.hosts)
            /\ IF config_exists'
               THEN /\ result' = ec_noop
                    /\ pc' = "done"
               ELSE /\ pc' = "allsystems"
                    /\ UNCHANGED result
    /\ UNCHANGED <<mod, params, request, resource_ids, patch_ids, data>>

\* in a single invocation each call is answered by any response of its kind
EcViewConfig ==
    /\ mod = "patch" /\ pc = "viewconfig"
    /\ \E r \in GetResponses(Lists(Configs, MaxItems)) : EcViewConfigGiven(r)
    /\ UNCHANGED <<remote, runs>>

\* patch_hosts: resource_ids = get_resource_ids_for_patching(...)
EcAllSystemsGiven(r) ==
    /\ mod = "patch" /\ pc = "allsystems"
    /\ resp' = r
    /\ calls' = Append(calls, Call("GET", "allsystems", <<>>,
                              r.status_code, r.envelope))
    /\ IF ~EcGetOk(r)
       THEN /\ Fail(FailJson("failed to patch hosts", FALSE))
            /\ UNCHANGED <<fetched, resource_ids>>
       ELSE /\ fetched' = r.objects
            /\ resource_ids' =
                   get_resource_ids_for_patching(r.objects, params.hosts)
            /\ pc' = "allpatches"
            /\ UNCHANGED result
    /\ UNCHANGED <<mod, params, checked, config_exists, request, patch_ids, data>>

EcAllSystems ==
    /\ mod = "patch" /\ pc = "allsystems"
    /\ \E r \in GetResponses(Systems) : EcAllSystemsGiven(r)
    /\ UNCHANGED <<remote, runs>>

\* patch_hosts: all_patches, selected_patches, patch_ids
EcAllPatchesGiven(r) ==
    /\ mod = "patch" /\ pc = "allpatches"
    /\ resp' = r
    /\ calls' = Append(calls, Call("GET", "allpatches", <<>>,
                              r.status_code, r.envelope))
    /\ IF ~EcGetOk(r)
       THEN /\ Fail(FailJson("failed to patch hosts", FALSE))
            /\ UNCHANGED <<fetched, patch_ids>>
       ELSE /\ fetched' = r.objects
            /\ patch_ids' = select_patch_ids(r.objects, params.patch_types)
            /\ pc' = "deploymentpolicies"
            /\ UNCHANGED result
    /\ UNCHANGED <<mod, params, checked, config_exists, request, resource_ids, data>>

EcAllPatches ==
    /\ mod = "patch" /\ pc = "allpatches"
    /\ \E r \in GetResponses(Patches) : EcAllPatchesGiven(r)
    /\ UNCHANGED <<remote, runs>>

\* patch_hosts: the try block that resolves policy_id and builds data
EcDeploymentPoliciesGiven(r) ==
    /\ mod = "patch" /\ pc = "deploymentpolicies"
    /\ resp' = r
    /\ calls' = Append(calls,
                       Call("GET", "deploymentpolicies", <<>>,
                            r.status_code, r.envelope))
    /\ IF ~EcGetOk(r)
       THEN /\ Fail(FailJson("failed to patch hosts", FALSE))
            /\ UNCHANGED <<fetched, data>>
       ELSE LET found == matching_policies(r.objects,
                                           params.deployment_policy_name)
            IN  /\ fetched' = r.objects
                /\ IF found = <<>>
                   THEN \* StopIteration
                        /\ Fail(FailJson("failed to find deployment policy",
                                         FALSE))
                        /\ UNCHANGED data
                   ELSE /\ data' = build_data(patch_ids, resource_ids,
                                              params.name, params.desc,
                                              Head(found).template_id)
                        /\ pc' = "installpatch"
                        /\ UNCHANGED result
    /\ UNCHANGED <<mod, params, checked, config_exists, request, resource_ids,
                   patch_ids>>

EcDeploymentPolicies ==
    /\ mod = "patch" /\ pc = "deploymentpolicies"
    /\ \E r \in GetResponses(Policies) : EcDeploymentPoliciesGiven(r)
    /\ UNCHANGED <<remote, runs>>

\* patch_hosts: api_post("patch/installpatch"), then run_module's
\* classification of resp
EcInstallPatchGiven(r) ==
    /\ mod = "patch" /\ pc = "installpatch"
    /\ resp' = r
    /\ calls' = Append(calls, Call("POST", "installpatch", data,
                              r.status_code, TRUE))
    /\ result' = IF EcPostOk(r) THEN classify_install(r)
                 ELSE FailJson("failed to patch hosts", FALSE)
    /\ pc' = "done"
    /\ UNCHANGED <<mod, params, fetched, checked, config_exists, request,
                   resource_ids, patch_ids, data>>

EcInstallPatch ==
    /\ mod = "patch" /\ pc = "installpatch"
    /\ \E r \in InstallResponses : EcInstallPatchGiven(r)
    /\ UNCHANGED <<remote, runs>>

---------------------------------------------------------------------------
(* service_desk_plus_request.py *)

\* patch_types is optional: module.params holds None when it is not supplied
None == [is_none |-> TRUE, items |-> <<>>]
Some(l) == [is_none |-> FALSE, items |-> l]

TicketParams ==
    [state : {"present", "absent"},
     name : DesiredNames,
     deployment_policy_name : {<<"a">>},
     hosts : HostLists,
     patch_types : {None} \cup {Some(l) : l \in Lists(TypeLabels, 1)}]

Tickets ==
    Numbered(Lists(RemoteNames \X {"Open", "Closed"}
                       \X {<<"a", " ", "b">>, <<"b">>}, MaxItems),
             LAMBDA t, i : [id |-> i, subject |-> t[1],
                            status |-> [name |-> t[2]],
                            short_description |-> t[3]])

\* A response to the user search: {"users": [...]}
UserResponses ==
    {[status_code |-> s, envelope |-> e, objects |-> <<>>] :
        s \in HttpStatuses, e \in BOOLEAN}
    \cup {[status_code |-> 200, envelope |-> TRUE, objects |-> u] :
            u \in Lists([has_id : BOOLEAN, id : {7}], 2)}

\* A response to the request creation: {"request": {...}}; the status of a
\* request object is a mapping ("object"), never the text "error", unless
\* the remote puts one there
CreateResponses ==
    {[status_code |-> s, envelope |-> FALSE, status |-> Absent,
      error_code |-> Absent] : s \in HttpStatuses}
    \cup {[status_code |-> s, envelope |-> TRUE, status |-> "object",
           error_code |-> Absent] : s \in HttpStatuses}
    \cup {[status_code |-> 200, envelope |-> TRUE, status |-> st,
           error_code |-> ec] :
            st \in {"error", "object", Absent},
            ec \in {"3010", "3011", Absent}}

\* A response to move_to_trash: {"response_status": {"status": ...}}
DeleteResponses ==
    {[status_code |-> s, response_status |-> TRUE, status |-> "success"] :
        s \in HttpStatuses}
    \cup {[status_code |-> 200, response_status |-> rs, status |-> st] :
            rs \in BOOLEAN, st \in {"success", "failed", Absent}}

SdpOk_any_status(r) == TRUE

\* the three transports share one success test
SdpOk(r) == r.status_code \in {200, 201}

\* get_api_objects returns json[object_name], or raises
SdpGetOk(r) == SdpOk(r) /\ r.envelope

\* the conjuncts of find_request's filter that precede patch_types
request_matches_hosts(t, request_name, hosts) ==
    /\ StartsWith(t.subject, request_name)
    /\ t.status.name = "Open"
    /\ \A i \in 1..Len(hosts) : Contains(t.short_description, hosts[i])

\* the last conjunct: all(s in request["short_description"] for s in patch_types)
request_matches_types(t, patch_types) ==
    \A i \in 1..Len(patch_types) : Contains(t.short_description, patch_types[i])

\* find_request: raised when iterating patch_types raises (TypeError on
\* None, reached only for a ticket that passes the earlier conjuncts);
\* otherwise value is the first ticket passing the filter, or None (<<>>)
find_request(request_name, requests, hosts, patch_types) ==
    LET pre == SelectSeq(requests,
                   LAMBDA t : request_matches_hosts(t, request_name, hosts))
        hits == SelectSeq(pre,
                   LAMBDA t : request_matches_types(t, patch_types.items))
    IN  IF patch_types.is_none
        THEN [raised |-> pre # <<>>, value |-> <<>>]
        ELSE [raised |-> FALSE,
              value |-> IF hits = <<>> THEN <<>> ELSE <<Head(hits)>>]

\* get_user_by_username returns users[0], or leaves through fail_json
user_found(r) == SdpOk(r) /\ r.envelope /\ r.objects # <<>>

sdp_noop_changed_bug(msg) == [changed |-> TRUE, failed |-> FALSE, msg |-> msg]

\* lines 396-398 and 423-425: the results of the branches that call nothing
sdp_noop(msg) == [changed |-> FALSE, failed |-> FALSE, msg |-> msg]

\* lines 410-420: the classification of the created request
classify_create(r) ==
    IF r.status = Absent
    THEN FailJson("failed to create request", FALSE)        \* KeyError
    ELSE IF r.status = "error"
    THEN IF r.error_code = Absent
         THEN FailJson("failed to create request", FALSE)   \* KeyError
         ELSE IF r.error_code = "3010"
         THEN [changed |-> FALSE, failed |-> FALSE, msg |-> "resp"]
         ELSE FailJson("resp", FALSE)
    ELSE [changed |-> TRUE, failed |-> FALSE, msg |-> "resp"]

classify_delete_any_status(r) ==
    IF ~r.response_status \/ r.status = Absent
    THEN FailJson("failed to create request", FALSE)
    ELSE [changed |-> TRUE, failed |-> FALSE, msg |-> "resp"]

\* lines 434-441: the classification of the delete response
classify_delete(r) ==
    IF ~r.response_status \/ r.status = Absent
    THEN FailJson("failed to create request", FALSE)        \* KeyError
    ELSE IF r.status = "success"
    THEN [changed |-> TRUE, failed |-> FALSE, msg |-> "resp"]
    ELSE FailJson("resp", FALSE)

\* requests = get_api_objects("requests"); find_request; the branches of
\* state that end without a further call
SdpRequests ==
    /\ mod = "ticket" /\ pc = "requests"
    /\ \E r \in GetResponses(Tickets) :
        /\ resp' = r
        /\ calls' = Append(calls, Call("GET", "requests", <<>>,
                                  r.status_code, r.envelope))
        /\ IF ~SdpGetOk(r)
           THEN /\ Fail(FailJson("failed to create request", FALSE))
                /\ UNCHANGED <<fetched, checked, request>>
           ELSE LET found == find_request(params.name, r.objects, params.hosts,
                                          params.patch_types)
                IN  /\ fetched' = r.objects
                    /\ IF found.raised
                       THEN /\ Fail(FailJson("Failed to find existing request",
                                             FALSE))
                            /\ UNCHANGED <<checked, request>>
                       ELSE /\ checked' = TRUE
                            /\ request' = found.value
                            /\ IF params.state = "present"
                               THEN IF found.value # <<>>
                                    THEN /\ result' =
                                              sdp_noop("request already exists")
                                         /\ pc' = "done"
                                    ELSE /\ pc' = "users"
                                         /\ UNCHANGED result
                               ELSE IF found.value = <<>>
                                    THEN /\ result' =
                                              sdp_noop("request does not exist")
                                         /\ pc' = "done"
                                    ELSE /\ pc' = "move_to_trash"
                                         /\ UNCHANGED result
    /\ UNCHANGED <<mod, params, config_exists, resource_ids, patch_ids, data>>
    /\ UNCHANGED <<remote, runs>>

\* create_tms_request: get_user_by_username while data is built
SdpUsers ==
    /\ mod = "ticket" /\ pc = "users"
    /\ \E r \in UserResponses :
        /\ resp' = r
        /\ calls' = Append(calls, Call("GET", "users", <<>>,
                                  r.status_code, r.envelope))
        /\ IF ~user_found(r)
           THEN /\ Fail(FailJson("Error getting user by username", FALSE))
                /\ UNCHANGED data
           ELSE IF ~r.objects[1].has_id
           THEN /\ Fail(FailJson("failed to create request", FALSE)) \* KeyError
                /\ UNCHANGED data
           ELSE /\ data' = [subject |-> params.name,
                            \* the f-string over patch_types, hosts and
                            \* policy_name, kept as its three arguments
                            description |-> [patch_types |-> params.patch_types,
                                             hosts |-> params.hosts,
                                             policy_name |->
                                                 params.deployment_policy_name],
                            requester |-> [id |-> r.objects[1].id,
                                           name |-> "automation"],
                            resolution |-> [content |->
                                "The update has completed successfully"],
                            status |-> [name |-> "Open"]]
                /\ pc' = "create"
                /\ UNCHANGED result
    /\ UNCHANGED <<mod, params, fetched, checked, config_exists, request,
                   resource_ids, patch_ids>>
    /\ UNCHANGED <<remote, runs>>

\* create_tms_request: requests.post, then run_module's classification
SdpCreate ==
    /\ mod = "ticket" /\ pc = "create"
    /\ \E r \in CreateResponses :
        /\ resp' = r
        /\ calls' = Append(calls,
                           Call("POST", "requests", data,
                                r.status_code, r.envelope))
        /\ result' = IF SdpOk(r) /\ r.envelope THEN classify_create(r)
                     ELSE FailJson("failed to create request", FALSE)
        /\ pc' = "done"
    /\ UNCHANGED <<mod, params, fetched, checked, config_exists, request,
                   resource_ids, patch_ids, data>>
    /\ UNCHANGED <<remote, runs>>

\* delete_tms_ticket(request["id"]), then run_module's classification
SdpDelete ==
    /\ mod = "ticket" /\ pc = "move_to_trash"
    /\ \E r \in DeleteResponses :
        /\ resp' = r
        /\ calls' = Append(calls,
                           Call("DELETE", "move_to_trash", request[1].id,
                                r.status_code, TRUE))
        /\ result' = IF SdpOk(r) THEN classify_delete(r)
                     ELSE FailJson("failed to create request", FALSE)
        /\ pc' = "done"
    /\ UNCHANGED <<mod, params, fetched, checked, config_exists, request,
                   resource_ids, patch_ids, data>>
    /\ UNCHANGED <<remote, runs>>

---------------------------------------------------------------------------
(* The reconciler: one invocation of either module *)

Init ==
    /\ \/ mod = "patch" /\ params \in PatchParams /\ pc = "viewconfig"
       \/ mod = "ticket" /\ params \in TicketParams /\ pc = "requests"
    /\ calls = <<>>
    /\ result = InitialResult
    /\ fetched = <<>>
    /\ checked = FALSE
    /\ config_exists = FALSE
    /\ request = <<>>
    /\ resource_ids = <<>>
    /\ patch_ids = <<>>
    /\ data = <<>>
    /\ resp = <<>>
    /\ remote = NoRemote
    /\ runs = <<>>

Next ==
    \/ EcViewConfig
    \/ EcAllSystems
    \/ EcAllPatches
    \/ EcDeploymentPolicies
    \/ EcInstallPatch
    \/ SdpRequests
    \/ SdpUsers
    \/ SdpCreate
    \/ SdpDelete

Spec == Init /\ [][Next]_vars

---------------------------------------------------------------------------
(* Properties of the reconciler, checked under Spec *)

LastCall == calls[Len(calls)]

NoMutatingCall == \A i \in 1..Len(calls) : ~IsMutating(calls[i])

\* the transport contract: success is exactly 200 for the patch backend
\* and 200 or 201 for the service desk
HttpSuccess(c) ==
    IF mod = "patch" THEN c.status_code = 200 ELSE c.status_code \in {200, 201}

\* the first call of the invocation read the current collection and got it
CollectionRead ==
    /\ calls # <<>>
    /\ calls[1].method = "GET"
    /\ calls[1].endpoint = (IF mod = "patch" THEN "viewconfig" ELSE "requests")
    /\ HttpSuccess(calls[1])
    /\ calls[1].has_key

VerdictAgrees ==
    /\ checked
    /\ \/ mod = "patch" /\ params.state = "present" /\ config_exists
       \/ mod = "ticket" /\ params.state = "present" /\ request # <<>>
       \/ mod = "ticket" /\ params.state = "absent" /\ request = <<>>

\* C1: when the matcher's verdict already agrees with the desired state
\* (present and found, or absent and not found), the invocation has ended
\* after its one read, has issued no POST and no DELETE, and reports
\* changed=false, failed=false.
C1_NoOpWhenSatisfied ==
    VerdictAgrees =>
        /\ pc = "done"
        /\ Len(calls) = 1
        /\ NoMutatingCall
        /\ ~result.changed /\ ~result.failed

C1_Witness ==
    /\ VerdictAgrees /\ pc = "done"
    /\ mod = "ticket" /\ params.state = "present" /\ Len(fetched) = 2

CreateDone ==
    pc = "done" /\ calls # <<>> /\ LastCall.method = "POST"

\* the create call came back with a success status and a body the create
\* function could hand to run_module
CreateReturned == CreateDone /\ HttpSuccess(LastCall) /\ LastCall.has_key

\* C2 as stated: every create response with a success HTTP status is
\* classified by its status alone: status "error" with code 3010 is a
\* no-op, status "error" with another code is a failure, and any status
\* that is not "error" (a missing one included) is a change.
C2_AsStated ==
    (CreateDone /\ HttpSuccess(LastCall)) =>
        /\ (resp.status = "error" /\ resp.error_code = "3010")
              => (~result.changed /\ ~result.failed)
        /\ (resp.status = "error" /\ resp.error_code # "3010")
              => (result.failed /\ ~result.changed)
        /\ (resp.status # "error")
              => (result.changed /\ ~result.failed)

\* C2, amended: for a create response with a success HTTP status, status
\* "error" with error_code "3010" gives changed=false, failed=false; status
\* "error" with any other or no error_code gives failed=true,
\* changed=false; a status that is present and not "error" gives
\* changed=true, failed=false; a body with no status (or, for a ticket,
\* with no request object) gives failed=true, changed=false.
C2_CreateClassified ==
    (CreateDone /\ HttpSuccess(LastCall)) =>
        /\ (resp.status = "error" /\ resp.error_code = "3010")
              => (~result.changed /\ ~result.failed)
        /\ (resp.status = "error" /\ resp.error_code # "3010")
              => (result.failed /\ ~result.changed)
        /\ (resp.status \notin {"error", Absent} /\ LastCall.has_key)
              => (result.changed /\ ~result.failed)
        /\ (resp.status = Absent \/ ~LastCall.has_key)
              => (result.failed /\ ~result.changed)

C2_Witness ==
    /\ CreateReturned /\ mod = "patch"
    /\ resp.status = "error" /\ resp.error_code = "3010"
    /\ ~result.changed /\ ~result.failed

DeleteDone ==
    pc = "done" /\ calls # <<>> /\ LastCall.method = "DELETE"

\* C3: after the DELETE of a found ticket, the outcome is changed=true,
\* failed=false exactly when the call had a success HTTP status and its
\* body has response_status.status = "success"; every other delete result
\* gives failed=true, changed=false.
C3_DeleteClassified ==
    DeleteDone =>
        /\ mod = "ticket" /\ params.state = "absent" /\ request # <<>>
        /\ IF /\ HttpSuccess(LastCall)
              /\ resp.response_status
              /\ resp.status = "success"
           THEN result.changed /\ ~result.failed
           ELSE result.failed /\ ~result.changed

C3_Witness ==
    /\ DeleteDone /\ LastCall.status_code = 201
    /\ result.changed /\ ~result.failed

\* C4: every POST or DELETE in the call log comes after a first call that
\* read the current collection successfully, and after the matcher's
\* evaluation of it; when that read failed, the log holds no POST or DELETE.
C4_ReadBeforeWrite ==
    /\ \A i \in 1..Len(calls) :
          IsMutating(calls[i]) => (i > 1 /\ CollectionRead /\ checked)
    /\ (calls # <<>> /\ ~CollectionRead) => (NoMutatingCall /\ pc = "done")

C4_Witness ==
    /\ ~NoMutatingCall /\ CollectionRead /\ checked
    /\ mod = "ticket" /\ LastCall.method = "DELETE"

\* the deployment policies were read: fetched holds them from then on
PoliciesRead ==
    /\ mod = "patch" /\ Len(calls) >= 4
    /\ calls[4].endpoint = "deploymentpolicies"
    /\ HttpSuccess(calls[4]) /\ calls[4].has_key

ExactMatches ==
    {i \in 1..Len(fetched) :
        fetched[i].template_name = params.deployment_policy_name}

FirstExactMatch == CHOOSE i \in ExactMatches : \A j \in ExactMatches : i <= j

\* C9: once the deployment policies are read, if none has a template_name
\* equal to the requested name the invocation has ended failed=true,
\* changed=false with the policy-not-found message and no POST; otherwise
\* the body built, and the body of the POST if one is issued, carry the
\* template_id of the first exact match in fetched order.
C9_PolicyResolved ==
    PoliciesRead =>
        IF ExactMatches = {}
        THEN /\ pc = "done" /\ Len(calls) = 4 /\ NoMutatingCall
             /\ result = [changed |-> FALSE, failed |-> TRUE,
                          msg |-> "failed to find deployment policy"]
        ELSE /\ data.DeploymentPolicyTemplateID =
                    fetched[FirstExactMatch].template_id
             /\ Len(calls) = 4 => pc = "installpatch"
             /\ Len(calls) > 4 =>
                    /\ Len(calls) = 5
                    /\ LastCall.method = "POST"
                    /\ LastCall.endpoint = "installpatch"
                    /\ LastCall.arg.DeploymentPolicyTemplateID =
                           fetched[FirstExactMatch].template_id

C9_Witness ==
    /\ PoliciesRead /\ Len(calls) = 5
    /\ ExactMatches = {2}
    /\ LastCall.arg.DeploymentPolicyTemplateID = 2

C9_WitnessNotFound ==
    /\ PoliciesRead /\ fetched # <<>> /\ ExactMatches = {} /\ result.failed

\* the call did not hand a value back: a non-success status, or a decoded
\* body without the key the caller unwraps
CallFailed(c) == ~(HttpSuccess(c) /\ c.has_key)

\* the step that just ran met one of the terminal errors
TerminalError ==
    /\ calls # <<>>
    /\ \/ CallFailed(LastCall)
       \/ LastCall.endpoint = "deploymentpolicies" /\ ExactMatches = {}
       \/ /\ LastCall.endpoint = "users"
          /\ (resp.objects = <<>> \/ ~resp.objects[1].has_id)
       \/ /\ LastCall.method = "POST"
          /\ \/ resp.status = Absent
             \/ resp.status = "error" /\ resp.error_code # "3010"
       \/ /\ LastCall.method = "DELETE"
          /\ (~resp.response_status \/ resp.status # "success")

\* C10: a step that meets a terminal error (non-success status, missing
\* key, policy or user not found, vendor error other than 3010) leaves the
\* invocation ended with failed=true, changed=false; a failed call is the
\* last call of the log; and whenever failed=true is reported the
\* invocation has ended with changed=false.
C10_TerminalErrors ==
    /\ TerminalError => (pc = "done" /\ result.failed /\ ~result.changed)
    /\ \A i \in 1..(Len(calls) - 1) : ~CallFailed(calls[i])
    /\ result.failed => (pc = "done" /\ ~result.changed)

C10_Witness ==
    /\ mod = "ticket" /\ Len(calls) = 2 /\ LastCall.endpoint = "users"
    /\ ~CallFailed(LastCall) /\ resp.objects = <<>>
    /\ pc = "done" /\ result.failed /\ ~result.changed

---------------------------------------------------------------------------
(* Harnesses for the pure parts of endpoint_central_patch_config.py: Init   *)
(* draws the arguments, the one action applies the function               *)

Harness ==
    /\ pc = "call"
    /\ calls = <<>>
    /\ result = InitialResult
    /\ checked = FALSE
    /\ config_exists = FALSE
    /\ request = <<>>
    /\ resource_ids = <<>>
    /\ patch_ids = <<>>
    /\ data = <<>>
    /\ resp = <<>>
    /\ remote = NoRemote
    /\ runs = <<>>

EcParams(name, hosts, patch_types) ==
    [state |-> "present", name |-> name, desc |-> <<"d">>,
     deployment_policy_name |-> <<"a">>, hosts |-> hosts,
     patch_types |-> patch_types]

\* one config with any names, or a list of configs with few names
InitConfigMatcher ==
    /\ mod = "patch" /\ Harness
    /\ \/ /\ params \in {EcParams(n, h, <<>>) :
                            n \in Strs(MaxLen - 1), h \in HostLists}
          /\ fetched \in
                {<<c>> : c \in [collection_name : Strs(MaxLen),
                                is_collection_deleted : BOOLEAN,
                                total_target_count : 0..2,
                                status_label : {ExecutedLabel,
                                                "dc.db.config.status.ready"}]}
       \/ /\ params \in {EcParams(n, h, <<>>) :
                            n \in DesiredNames, h \in HostLists}
          /\ fetched \in Lists(Configs, MaxItems)

ApplyConfigMatcher ==
    /\ pc = "call"
    /\ config_exists' = check_if_config_exists(params.name, fetched, params.hosts)
    /\ checked' = TRUE
    /\ pc' = "return"
    /\ UNCHANGED <<mod, params, calls, result, fetched, request, resource_ids,
                   patch_ids, data, resp>>
    /\ UNCHANGED <<remote, runs>>

SpecConfigMatcher == InitConfigMatcher /\ [][ApplyConfigMatcher]_vars

\* s is p followed by something
HasPrefix(s, p) == \E t \in Strs(MaxLen + 1) : s = p \o t

\* the config the claim calls the desired one
IsDesiredConfig(c) ==
    /\ HasPrefix(c.collection_name, params.name)
    /\ c.is_collection_deleted = FALSE
    /\ c.total_target_count = Len(params.hosts)
    /\ c.status_label # "dc.db.config.status.executed"

\* C5: check_if_config_exists returns true iff some fetched config has a
\* collection_name starting with the desired name, is not soft-deleted, has
\* total_target_count equal to the number of requested hosts and a status
\* label other than the executed one; and the verdict is the same for every
\* other requested host list of the same length.
C5_ConfigMatcher ==
    pc = "return" =>
        /\ config_exists <=> (\E i \in 1..Len(fetched) : IsDesiredConfig(fetched[i]))
        /\ \A h \in Lists({<<"a">>, <<"b">>, <<"a", "b">>}, 2) :
              Len(h) = Len(params.hosts) =>
                  check_if_config_exists(params.name, fetched, h) = config_exists

C5_Witness ==
    /\ pc = "return" /\ config_exists
    /\ Len(fetched) = 2 /\ ~IsDesiredConfig(fetched[1])
    /\ params.hosts = << <<"a">>, <<"b">> >>

C5_WitnessNearMiss ==
    /\ pc = "return" /\ ~config_exists /\ Len(fetched) = 1
    /\ HasPrefix(fetched[1].collection_name, params.name)
    /\ ~fetched[1].is_collection_deleted
    /\ fetched[1].status_label # ExecutedLabel
    /\ fetched[1].total_target_count # Len(params.hosts)

---------------------------------------------------------------------------
\* one type and one patch with any text, or lists of both with few texts
InitPatchSelector ==
    /\ mod = "patch" /\ Harness
    /\ \/ /\ params \in {EcParams(<<"a">>, <<>>, <<t>>) : t \in Strs(MaxLen)}
          /\ fetched \in
                {<<[patch_description |-> d, missing |-> m, patch_id |-> 1]>> :
                    d \in Strs(MaxLen), m \in 0..2}
       \/ /\ params \in {EcParams(<<"a">>, <<>>, t) :
                            t \in Lists(TypeLabels, MaxItems)}
          /\ fetched \in Patches

ApplyPatchSelector ==
    /\ pc = "call"
    /\ patch_ids' = select_patch_ids(fetched, params.patch_types)
    /\ pc' = "return"
    /\ UNCHANGED <<mod, params, calls, result, fetched, checked, config_exists,
                   request, resource_ids, data, resp>>
    /\ UNCHANGED <<remote, runs>>

SpecPatchSelector == InitPatchSelector /\ [][ApplyPatchSelector]_vars

\* t, a text without whitespace, is one of the whitespace-delimited tokens
\* of s: it occurs in s with whitespace or an end of s on both sides
IsTokenOf(t, s) == Contains(<<" ">> \o s \o <<" ">>, <<" ">> \o t \o <<" ">>)

LabelSelects(label, description) ==
    \A t \in SplitSet(label) : IsTokenOf(t, description)

ShouldSelect(patch) ==
    /\ \E i \in 1..Len(params.patch_types) :
          LabelSelects(params.patch_types[i], patch.patch_description)
    /\ patch.missing > 0

\* C7: the patch ids selected are exactly the ids of the catalog patches for
\* which some requested label has every whitespace-delimited token among
\* the tokens of the patch description, and whose missing count is above 0.
C7_PatchSelection ==
    pc = "return" =>
        Range(patch_ids) =
            {fetched[i].patch_id : i \in {j \in 1..Len(fetched) :
                                             ShouldSelect(fetched[j])}}

\* selected by tokens although the label is no substring of the description
C7_Witness ==
    /\ pc = "return" /\ Len(fetched) = 1 /\ patch_ids = <<1>>
    /\ Len(params.patch_types) = 1
    /\ SplitSet(params.patch_types[1]) # {}
    /\ ~Contains(fetched[1].patch_description, params.patch_types[1])

\* not selected although the label is a substring of the description
C7_WitnessSubstring ==
    /\ pc = "return" /\ Len(fetched) = 1 /\ patch_ids = <<>>
    /\ fetched[1].missing > 0
    /\ Len(params.patch_types) = 1
    /\ Contains(fetched[1].patch_description, params.patch_types[1])

---------------------------------------------------------------------------
\* any inventory of systems with distinct resource ids; two systems may
\* carry the same resource_name (the same computer name in two domains)
Inventories ==
    {inv \in Lists([resource_name : {<<"a">>, <<"b">>, <<"a", "b">>},
                    resource_id : 1..(MaxItems + 1)], MaxItems) :
        \A i, j \in 1..Len(inv) :
            inv[i].resource_id = inv[j].resource_id => i = j}

InitResolver ==
    /\ mod = "patch" /\ Harness
    /\ params \in {EcParams(<<"a">>, h, <<>>) : h \in Lists(Hostnames, MaxItems)}
    /\ fetched \in Inventories

ApplyResolver ==
    /\ pc = "call"
    /\ resource_ids' = get_resource_ids_for_patching(fetched, params.hosts)
    /\ pc' = "return"
    /\ UNCHANGED <<mod, params, calls, result, fetched, checked, config_exists,
                   request, patch_ids, data, resp>>
    /\ UNCHANGED <<remote, runs>>

SpecResolver == InitResolver /\ [][ApplyResolver]_vars

Reorderings(s) ==
    {[i \in 1..Len(s) |-> s[f[i]]] : f \in Permutations(1..Len(s))}

Occurrences(s, v) == Cardinality({i \in 1..Len(s) : s[i] = v})

Requested(entry) == \E k \in 1..Len(params.hosts) : params.hosts[k] = entry.resource_name

RequestedEntries == {i \in 1..Len(fetched) : Requested(fetched[i])}

OnlyRequestedIds ==
    \A k \in 1..Len(resource_ids) :
        \E i \in RequestedEntries : fetched[i].resource_id = resource_ids[k]

\* C8 as stated: the result holds only ids of requested inventory entries,
\* has at most |H| ids, and is the same for every reordering of the
\* inventory; the function returns for every input.
C8_AsStated ==
    /\ pc = "call" => ENABLED ApplyResolver
    /\ pc = "return" =>
        /\ OnlyRequestedIds
        /\ Len(resource_ids) <= Len(params.hosts)
        /\ \A inv \in Reorderings(fetched) :
              get_resource_ids_for_patching(inv, params.hosts) = resource_ids

\* C8, amended: the result is the list of the ids of the inventory entries
\* whose resource_name is in H, one per entry and in inventory order: at
\* most |H| ids when no two inventory entries share a resource_name, and
\* the same ids, each as often, for every reordering of the inventory;
\* requested hosts absent from the inventory add nothing and raise nothing.
C8_Resolver ==
    /\ pc = "call" => ENABLED ApplyResolver
    /\ pc = "return" =>
        /\ OnlyRequestedIds
        /\ Len(resource_ids) = Cardinality(RequestedEntries)
        /\ \A k \in 1..Len(resource_ids) :
              \E i \in RequestedEntries :
                  /\ fetched[i].resource_id = resource_ids[k]
                  /\ Cardinality({j \in RequestedEntries : j < i}) = k - 1
        /\ (\A i, j \in 1..Len(fetched) :
               fetched[i].resource_name = fetched[j].resource_name => i = j)
             => Len(resource_ids) <= Len(params.hosts)
        /\ \A inv \in Reorderings(fetched) :
              \A v \in 1..(MaxItems + 1) :
                  Occurrences(get_resource_ids_for_patching(inv, params.hosts), v)
                      = Occurrences(resource_ids, v)

\* a requested host is missing from the inventory and another is resolved
C8_Witness ==
    /\ pc = "return" /\ Len(params.hosts) = 2 /\ Len(resource_ids) = 1
    /\ Len(fetched) = 2
    /\ \E k \in 1..2 : \A i \in 1..2 : fetched[i].resource_name # params.hosts[k]

---------------------------------------------------------------------------
(* Harness for find_request of service_desk_plus_request.py *)

SdpParams(name, hosts, patch_types) ==
    [state |-> "present", name |-> name, deployment_policy_name |-> <<"a">>,
     hosts |-> hosts, patch_types |-> patch_types]

\* one ticket with any short description against one host and at most one
\* type, or a list of tickets against the parameters of the reconciler
InitTicketMatcher ==
    /\ mod = "ticket" /\ Harness
    /\ \/ /\ params \in
                {SdpParams(n, <<h>>, t) :
                    n \in DesiredNames, h \in Strs(MaxLen - 1),
                    t \in {None, Some(<<>>)}
                          \cup {Some(<<l>>) : l \in Strs(1)}}
          /\ fetched \in
                {<<[id |-> 1, subject |-> sb, status |-> [name |-> st],
                    short_description |-> d]>> :
                    sb \in RemoteNames, st \in {"Open", "Closed"},
                    d \in Strs(MaxLen)}
       \/ /\ params \in TicketParams
          /\ fetched \in Tickets

ApplyTicketMatcher ==
    /\ pc = "call"
    /\ LET found == find_request(params.name, fetched, params.hosts,
                                 params.patch_types)
       IN  IF found.raised
           THEN /\ Fail(FailJson("Failed to find existing request", FALSE))
                /\ UNCHANGED <<checked, request>>
           ELSE /\ checked' = TRUE
                /\ request' = found.value
                /\ pc' = "return"
                /\ UNCHANGED result
    /\ UNCHANGED <<mod, params, calls, fetched, config_exists, resource_ids,
                   patch_ids, data, resp>>
    /\ UNCHANGED <<remote, runs>>

SpecTicketMatcher == InitTicketMatcher /\ [][ApplyTicketMatcher]_vars

\* sub occurs in s: s is something, then sub, then something
Occurs(sub, s) ==
    \E i \in 0..Len(s) : \E j \in i..Len(s) :
        [k \in 1..(j - i) |-> s[i + k]] = sub

\* the ticket the claim calls matching; with patch_types not supplied
\* there is no requested label to contain
IsMatchingTicket(t) ==
    /\ HasPrefix(t.subject, params.name)
    /\ t.status.name = "Open"
    /\ \A k \in 1..Len(params.hosts) : Occurs(params.hosts[k], t.short_description)
    /\ \A k \in 1..Len(params.patch_types.items) :
          Occurs(params.patch_types.items[k], t.short_description)

SomeTicketMatches == \E i \in 1..Len(fetched) : IsMatchingTicket(fetched[i])

\* C6: find_request returns a ticket iff some fetched ticket has a subject
\* starting with the desired name, status "Open" and a short description
\* containing every requested hostname and every requested patch-type
\* label; when none does it returns no ticket.
C6_TicketMatcher ==
    pc # "call" =>
        /\ (pc = "return" /\ request # <<>>) <=> SomeTicketMatches
        /\ ~SomeTicketMatches => (pc = "return" /\ request = <<>>)

\* the same for the invocations that supply patch_types
C6_TicketMatcherWithTypes ==
    (pc # "call" /\ ~params.patch_types.is_none) =>
        /\ pc = "return"
        /\ request # <<>> <=> SomeTicketMatches
        /\ request # <<>> =>
              \E i \in 1..Len(fetched) :
                  /\ request[1] = fetched[i]
                  /\ IsMatchingTicket(fetched[i])
                  /\ \A j \in 1..(i - 1) : ~IsMatchingTicket(fetched[j])

C6_WitnessWithTypes ==
    /\ pc = "return" /\ ~params.patch_types.is_none
    /\ params.patch_types.items # <<>> /\ params.hosts # <<>>
    /\ Len(fetched) = 2 /\ request = <<fetched[2]>>

---------------------------------------------------------------------------
(* The installpatch body, checked under Spec *)

\* the k-th smallest index of a set of indices
KthOf(S, k) == CHOOSE i \in S : Cardinality({j \in S : j < i}) = k - 1

SelectedEntries == {i \in 1..Len(fetched) : ShouldSelect(fetched[i])}

\* while patch_hosts runs: what it has resolved so far is what the
\* collection it just read and the desired config determine
ResolvedSoFar ==
    mod = "patch" =>
        /\ pc = "allpatches" =>
              resource_ids = [k \in 1..Cardinality(RequestedEntries) |->
                                 fetched[KthOf(RequestedEntries, k)].resource_id]
        /\ pc = "deploymentpolicies" =>
              patch_ids = [k \in 1..Cardinality(SelectedEntries) |->
                              fetched[KthOf(SelectedEntries, k)].patch_id]
        /\ pc = "installpatch" =>
              /\ ExactMatches # {}
              /\ data.DeploymentPolicyTemplateID =
                     fetched[FirstExactMatch].template_id

\* an installpatch POST sends the six fields, filled from what was resolved
PostsResolvedBody ==
    (mod = "patch" /\ Len(calls') > Len(calls)
        /\ calls'[Len(calls')].method = "POST") =>
        LET body == calls'[Len(calls')].arg
        IN  /\ calls'[Len(calls')].endpoint = "installpatch"
            /\ DOMAIN body = {"PatchIDs", "ResourceIDs", "ConfigName",
                              "ConfigDescription", "actionToPerform",
                              "DeploymentPolicyTemplateID"}
            /\ body.PatchIDs = patch_ids
            /\ body.ResourceIDs = resource_ids
            /\ body.ConfigName = params.name
            /\ body.ConfigDescription = params.desc
            /\ body.actionToPerform = "Deploy"
            /\ body.DeploymentPolicyTemplateID =
                   fetched[FirstExactMatch].template_id

\* what has been resolved is not altered by a later step of patch_hosts
KeepsResolved ==
    /\ (mod = "patch" /\ pc \in {"allpatches", "deploymentpolicies",
                                  "installpatch"})
          => resource_ids' = resource_ids
    /\ (mod = "patch" /\ pc \in {"deploymentpolicies", "installpatch"})
          => patch_ids' = patch_ids
    /\ (mod = "patch" /\ pc = "installpatch") => fetched' = fetched

\* C11: every installpatch POST carries a body with exactly the six fields:
\* PatchIDs the selected patch ids, ResourceIDs the resolved resource ids,
\* ConfigName and ConfigDescription the desired name and description,
\* actionToPerform "Deploy" and DeploymentPolicyTemplateID the resolved
\* policy id, each determined by the desired config and the collections read.
C11_InstallBody ==
    /\ []ResolvedSoFar
    /\ [][PostsResolvedBody /\ KeepsResolved]_vars

C11_Witness ==
    /\ mod = "patch" /\ calls # <<>> /\ LastCall.method = "POST"
    /\ LastCall.arg.PatchIDs = <<2>>
    /\ LastCall.arg.ResourceIDs = <<1, 2>>
    /\ LastCall.arg.DeploymentPolicyTemplateID = 2

---------------------------------------------------------------------------
(* Deleting with several matching tickets, checked under Spec *)

MatchingTickets == {i \in 1..Len(fetched) : IsMatchingTicket(fetched[i])}

\* the invocation issued one DELETE, for the first matching ticket, and
\* no other POST or DELETE
DeletesFirstMatch ==
    /\ Len(calls) = 2
    /\ calls[2].method = "DELETE"
    /\ calls[2].endpoint = "move_to_trash"
    /\ calls[2].arg = fetched[KthOf(MatchingTickets, 1)].id

\* C12: with state=absent, when several fetched tickets satisfy the
\* matcher, the invocation issues exactly one DELETE and it targets the id
\* of the first matching ticket in fetched order; no call is made for the
\* other matching tickets.
C12_DeleteFirstMatch ==
    (/\ mod = "ticket" /\ params.state = "absent"
     /\ CollectionRead /\ pc = "done"
     /\ Cardinality(MatchingTickets) >= 2) => DeletesFirstMatch

\* the same for the invocations that supply patch_types
C12_DeleteFirstMatchWithTypes ==
    (/\ mod = "ticket" /\ params.state = "absent"
     /\ ~params.patch_types.is_none
     /\ CollectionRead /\ pc = "done"
     /\ Cardinality(MatchingTickets) >= 2) => DeletesFirstMatch

C12_WitnessWithTypes ==
    /\ mod = "ticket" /\ params.state = "absent"
    /\ ~params.patch_types.is_none /\ params.patch_types.items # <<>>
    /\ pc = "done" /\ Cardinality(MatchingTickets) = 2
    /\ DeletesFirstMatch /\ result.changed

---------------------------------------------------------------------------
(* The matcher without patch_types, checked under Spec *)

\* the read of the requests ended in find_request's own failure
FailedInMatcher ==
    /\ pc = "done" /\ Len(calls) = 1 /\ ~checked
    /\ result.failed

\* C14: when patch_types is not supplied, find_request decides on name
\* prefix, Open status and hostname containment alone for every fetched
\* ticket list, and the invocation goes on to its present/absent outcome
\* instead of failing in the matcher.
C14_MatcherWithoutTypes ==
    (mod = "ticket" /\ params.patch_types.is_none /\ CollectionRead) =>
        /\ ~FailedInMatcher
        /\ checked
        /\ request # <<>> <=> SomeTicketMatches

\* what the code does instead: it decides only when no ticket passes the
\* three conditions, and then it found nothing
C14_DecidesOnlyWithoutCandidate ==
    (mod = "ticket" /\ params.patch_types.is_none /\ CollectionRead) =>
        /\ checked <=> ~SomeTicketMatches
        /\ ~checked <=> FailedInMatcher
        /\ request = <<>>

C14_WitnessFailed ==
    /\ mod = "ticket" /\ params.patch_types.is_none /\ CollectionRead
    /\ FailedInMatcher /\ SomeTicketMatches

---------------------------------------------------------------------------
(* The outcome of an invocation, checked under Spec *)

MutatingCalls == {i \in 1..Len(calls) : IsMutating(calls[i])}

\* the response to call i, the latest call, reports that the remote acted:
\* a success HTTP status and a body the classification reads as success
ClassifiedSuccess(i) ==
    /\ i = Len(calls)
    /\ HttpSuccess(calls[i])
    /\ IF calls[i].method = "POST"
       THEN /\ calls[i].has_key
            /\ resp.status # Absent
            /\ resp.status # "error"
       ELSE /\ resp.response_status
            /\ resp.status = "success"

\* C15: in every invocation of either module at most one POST or DELETE is
\* issued, the outcome never has changed=true together with failed=true,
\* and changed=true is reported only if a POST or DELETE was issued in the
\* invocation and its response was classified as success.
C15_OutcomeDiscipline ==
    /\ Cardinality(MutatingCalls) <= 1
    /\ ~(result.changed /\ result.failed)
    /\ result.changed => \E i \in MutatingCalls : ClassifiedSuccess(i)

C15_Witness ==
    /\ mod = "ticket" /\ pc = "done" /\ Len(calls) = 3
    /\ MutatingCalls = {3} /\ calls[3].method = "POST"
    /\ result.changed /\ ~result.failed

---------------------------------------------------------------------------
(* Repeated runs of the patch module against a recording remote *)

MaxRuns == 2

\* the remote before the first run: no config yet, an inventory, a patch
\* catalogue and the deployment policies
RecordingRemotes ==
    [configs : {<<>>},
     systems : Systems,
     patches : {p \in Patches : Len(p) <= 1},
     policies : {p \in Policies : Len(p) = 1}]

\* a collection read the remote answers with what it holds
Holds(objects) == [status_code |-> 200, envelope |-> TRUE, objects |-> objects]

\* what the remote records for an installpatch it carried out
Recorded(body) ==
    [collection_name |-> body.ConfigName,
     is_collection_deleted |-> FALSE,
     total_target_count |-> Len(body.ResourceIDs),
     status_label |-> "dc.db.config.status.ready"]

InitRepeated ==
    /\ mod = "patch" /\ params \in PatchParams /\ pc = "viewconfig"
    /\ calls = <<>>
    /\ result = InitialResult
    /\ fetched = <<>>
    /\ checked = FALSE
    /\ config_exists = FALSE
    /\ request = <<>>
    /\ resource_ids = <<>>
    /\ patch_ids = <<>>
    /\ data = <<>>
    /\ resp = <<>>
    /\ remote \in RecordingRemotes
    /\ runs = <<>>

RemoteViewConfig ==
    /\ EcViewConfigGiven(Holds(remote.configs))
    /\ UNCHANGED <<remote, runs>>

RemoteAllSystems ==
    /\ EcAllSystemsGiven(Holds(remote.systems))
    /\ UNCHANGED <<remote, runs>>

RemoteAllPatches ==
    /\ EcAllPatchesGiven(Holds(remote.patches))
    /\ UNCHANGED <<remote, runs>>

RemoteDeploymentPolicies ==
    /\ EcDeploymentPoliciesGiven(Holds(remote.policies))
    /\ UNCHANGED <<remote, runs>>

\* the remote carries out the installpatch and records it, or refuses it
RemoteInstallPatch ==
    /\ mod = "patch" /\ pc = "installpatch"
    /\ \E r \in InstallResponses :
        /\ EcInstallPatchGiven(r)
        /\ remote' = IF r.status_code = 200 /\ r.status = "success"
                     THEN [remote EXCEPT
                               !.configs = Append(@, Recorded(data))]
                     ELSE remote
    /\ UNCHANGED runs

\* the playbook runs the task again with the same parameters
NextRun ==
    /\ mod = "patch" /\ pc = "done" /\ Len(runs) + 1 < MaxRuns
    /\ runs' = Append(runs, result)
    /\ pc' = "viewconfig"
    /\ calls' = <<>>
    /\ result' = InitialResult
    /\ fetched' = <<>>
    /\ checked' = FALSE
    /\ config_exists' = FALSE
    /\ resource_ids' = <<>>
    /\ patch_ids' = <<>>
    /\ data' = <<>>
    /\ resp' = <<>>
    /\ UNCHANGED <<mod, params, request, remote>>

NextRepeated ==
    \/ RemoteViewConfig
    \/ RemoteAllSystems
    \/ RemoteAllPatches
    \/ RemoteDeploymentPolicies
    \/ RemoteInstallPatch
    \/ NextRun

SpecRepeated == InitRepeated /\ [][NextRepeated]_vars

\* the run before this one reported a change: its installpatch was carried
\* out and recorded, and this run has ended
RanAfterChange ==
    /\ runs # <<>> /\ runs[Len(runs)].changed
    /\ pc = "done"

\* C13: run again with the same name, hosts, patch types and policy after a
\* run whose installpatch the remote recorded, the module finds the config,
\* issues no POST and reports changed=false, for every host list, lists
\* with hosts missing from the inventory included.
C13_SecondRunIdempotent ==
    RanAfterChange =>
        /\ config_exists
        /\ NoMutatingCall
        /\ ~result.changed /\ ~result.failed

\* the runs for which it does hold: the inventory resolved as many ids as
\* there are requested hosts
C13_IdempotentWhenCountsAgree ==
    (/\ RanAfterChange
     /\ remote.configs[Len(remote.configs)].total_target_count
            = Len(params.hosts)) =>
        /\ config_exists
        /\ NoMutatingCall
        /\ ~result.changed /\ ~result.failed

C13_WitnessCountsAgree ==
    /\ RanAfterChange /\ config_exists /\ NoMutatingCall
    /\ Len(params.hosts) = 2

C13_WitnessPostedAgain ==
    /\ RanAfterChange /\ ~config_exists /\ result.changed
    /\ Len(remote.configs) = 2

====
